---- MODULE Spec2Model ----
(***************************************************************************)
(* A model of company_name_matcher: the VectorStore (cluster index, search *)
(* and persistence) and the CompanyNameMatcher orchestrator on top of it.  *)
(*                                                                         *)
(* Numbers.  Embeddings are two-dimensional vectors in fixed point: the    *)
(* tuple <<x, y>> stands for (x / Unit, y / Unit), and every vector the    *)
(* embedding producer returns is an integer multiple of a Pythagorean unit *)
(* vector, so norms, normalisation and cosine similarity are exact.  A     *)
(* similarity score s stands for s / (Unit * Unit).  Distances to cluster  *)
(* centres are kept squared (the order is the same).                       *)
(*                                                                         *)
(* Names are sequences of lower-case word tokens; the regular expression   *)
(* of the default preprocessing (case folding, removal of special          *)
(* characters) is taken as already applied to the tokens.                  *)
(***************************************************************************)
EXTENDS Integers, Sequences, FiniteSets, TLC

VARIABLES
    vector_store,     \* CompanyNameMatcher.vector_store: None or a VectorStore
    embedding_cache,  \* CompanyNameMatcher.embedding_cache, in insertion order
    config,           \* the constructor's use_cache and cache_size
    disk,             \* the index directory: does it exist, and its two artifacts
    saved,            \* history: the store as it was at the last completed save
    given,            \* history: the lists given to build_index and expand_index
                      \* since the last build_index, one after the other
    ret,              \* the last completed call: what was called, what came back
    par,              \* the parallel find_matches in flight (or Idle)
    adding            \* the add_items call another thread is in the middle of

vars == <<vector_store, embedding_cache, config, disk, saved, given, ret, par, adding>>

----------------------------------------------------------------------------
(* Bounds of the model *)

MaxBuild == 2        \* longest list given to build_index
MaxExpand == 1       \* longest list given to expand_index
MaxCatalog == 3      \* expand_index is not called beyond this many rows
MaxK == 2            \* largest k given to find_matches and search
MaxProbe == 2        \* largest n_probe_clusters
MaxClusters == 2     \* largest n_clusters given to build_index
MaxQueries == 3      \* longest list of queries given to find_matches
MaxBatch == 2        \* largest batch_size
MaxWorkers == 2      \* multiprocessing.cpu_count() of the machine
MaxCache == 2        \* largest cache_size given to the constructor

----------------------------------------------------------------------------
(* Values *)

\* Python's None, and a file that is not there.  (np.array([]) is <<>> as well:
\* the stores of this model are never empty.)
None == <<>>
NoFile == <<>>
Dummy == <<"dummy">>

\* save_dir: not given, or the one index directory
NoDir == "None"
Dir == "company_index/"

Unit == 5

RECURSIVE Fact(_)
Fact(n) == IF n <= 1 THEN 1 ELSE n * Fact(n - 1)

\* Cluster centres are means of up to MaxBuild rows: they are kept multiplied
\* by CentroidScale so that every mean is an integer vector.
CentroidScale == Fact(MaxBuild)

Min(a, b) == IF a <= b THEN a ELSE b
Max(a, b) == IF a >= b THEN a ELSE b

Range(f) == {f[i] : i \in DOMAIN f}

SeqsUpTo(S, lo, hi) == UNION {[1..n -> S] : n \in lo..hi}

RECURSIVE ISqrt(_, _)
ISqrt(n, r) == IF r * r >= n THEN r ELSE ISqrt(n, r + 1)

\* the value numpy gives 0 / 0 (with a warning, not an error); np.argsort puts
\* it after every number
NaN == 1000000

IsNaN(v) == \E i \in DOMAIN v : v[i] = NaN

IsZero(v) == \A i \in DOMAIN v : v[i] = 0

Dot(a, b) == IF IsNaN(a) \/ IsNaN(b) THEN NaN ELSE a[1] * b[1] + a[2] * b[2]

\* np.linalg.norm of one row
Norm(v) == ISqrt(Dot(v, v), 0)

\* row / norm: the unit vector, in the same fixed point; a row of zeros (norm
\* 0) or of NaN comes back as a row of NaN
Normalize(v) ==
    IF IsNaN(v) \/ IsZero(v) THEN [i \in DOMAIN v |-> NaN]
    ELSE <<(v[1] * Unit) \div Norm(v), (v[2] * Unit) \div Norm(v)>>

NormalizeRows(m) == [i \in DOMAIN m |-> Normalize(m[i])]

----------------------------------------------------------------------------
(* The embedding producer and the preprocessing *)

Stopwords == {"inc", "corp", "corporation", "llc", "ltd", "limited", "company"}

IsKept(word) == word \notin Stopwords

\* CompanyNameMatcher._default_preprocess: drop the stop words, keep the rest
DefaultPreprocess(name) == SelectSeq(name, IsKept)

PreprocessCompanyName(name) == DefaultPreprocess(name)

\* SentenceTransformer.encode on one preprocessed text: a fixed function of the
\* text (the model's weights do not change); the vectors are not unit length.
EncodeOne(key) ==
    CASE key = <<"acme">> -> <<8, 6>>
      [] key = <<"apex">> -> <<4, -3>>
      [] key = <<"globex">> -> <<-6, 8>>
      [] key = <<"initech">> -> <<5, 0>>
      [] key = <<"void">> -> <<0, 0>>
      [] OTHER -> <<0, 5>>

Encode(keys) == [i \in DOMAIN keys |-> EncodeOne(keys[i])]

CatalogNames == {<<"acme", "corp">>, <<"apex">>, <<"globex">>}
QueryNames == {<<"acme", "inc">>, <<"initech">>}

----------------------------------------------------------------------------
(* Sequences as Python and numpy slice them *)

Reverse(s) == [i \in 1..Len(s) |-> s[Len(s) + 1 - i]]

\* s[:k] for k >= 0
FirstK(s, k) == SubSeq(s, 1, Min(k, Len(s)))

\* s[-k:] for k >= 0: the last k elements, and, -0 being 0, all of s when k = 0
LastK(s, k) == IF k = 0 THEN s ELSE SubSeq(s, Max(1, Len(s) - k + 1), Len(s))

Perms(n) == {p \in [1..n -> 1..n] : \A i, j \in 1..n : i # j => p[i] # p[j]}

\* np.argsort(vals): positions in ascending order of value.  The default kind
\* (quicksort) is not stable: any order of equal values may come back.
Argsorts(vals) ==
    {p \in Perms(Len(vals)) :
        \A i, j \in 1..Len(vals) : i < j => vals[p[i]] <= vals[p[j]]}

\* sorted(pairs, key=score, reverse=True): descending and stable, so equal
\* scores keep the order they came in.  Insertion of s[n] into the sorted prefix.
RECURSIVE SortedDesc(_)
SortedDesc(s) ==
    IF Len(s) <= 1 THEN s
    ELSE LET n == Len(s)
             head == SortedDesc(SubSeq(s, 1, n - 1))
             ahead == {i \in 1..(n - 1) : head[i][2] >= s[n][2]}
             at == Cardinality(ahead)
         IN  SubSeq(head, 1, at) \o <<s[n]>> \o SubSeq(head, at + 1, n - 1)

RECURSIVE Concat(_)
Concat(ss) == IF ss = <<>> THEN <<>> ELSE Head(ss) \o Concat(Tail(ss))

\* np.where(arr == value)[0]: the positions holding value, ascending
RECURSIVE Where(_, _, _)
Where(arr, value, from) ==
    IF from > Len(arr) THEN <<>>
    ELSE (IF arr[from] = value THEN <<from>> ELSE <<>>) \o Where(arr, value, from + 1)

----------------------------------------------------------------------------
(* Errors the code raises *)

NoIndexError == [type |-> "ValueError", msg |-> "No index available. Call build_index or load_index first."]
IndexNotBuiltError == [type |-> "ValueError", msg |-> "No index to save. Call build_index first."]
FileExistsError == [type |-> "FileExistsError", msg |-> "Index files already exist"]
FileNotFoundError == [type |-> "FileNotFoundError", msg |-> "Index files not found"]
ShapeError == [type |-> "ValueError", msg |-> "shapes not aligned"]
ConcatError == [type |-> "ValueError", msg |-> "need at least one array to concatenate"]
IndexError == [type |-> "IndexError", msg |-> "list index out of range"]
NaNError == [type |-> "ValueError", msg |-> "Input X contains NaN."]
NotFittedError == [type |-> "NotFittedError", msg |-> "This KMeans instance is not fitted yet."]

Ok(v) == [ok |-> TRUE, val |-> v]
Err(e) == [ok |-> FALSE, err |-> e]

----------------------------------------------------------------------------
(* KMeans (sklearn), as far as the store uses it *)

Scaled(v, k) == <<v[1] * k, v[2] * k>>

DistSq(a, b) == (a[1] - b[1]) * (a[1] - b[1]) + (a[2] - b[2]) * (a[2] - b[2])

RECURSIVE SumRows(_, _)
SumRows(rows, idx) ==
    IF idx = {} THEN <<0, 0>>
    ELSE LET i == CHOOSE j \in idx : TRUE
             rest == SumRows(rows, idx \ {i})
         IN  <<rows[i][1] + rest[1], rows[i][2] + rest[2]>>

\* the mean of the rows in idx, times CentroidScale
Mean(rows, idx) ==
    LET s == SumRows(rows, idx)
        n == Cardinality(idx)
    IN  <<(s[1] * CentroidScale) \div n, (s[2] * CentroidScale) \div n>>

\* kmeans.transform(v): the distance of v to every centre (squared here)
Transform(kmeans, v) ==
    [c \in 1..Len(kmeans.cluster_centers) |->
        DistSq(Scaled(v, CentroidScale), kmeans.cluster_centers[c])]

\* kmeans.predict(v): the id (from 0) of the nearest centre, the first of equals
PredictOne(kmeans, v) ==
    LET d == Transform(kmeans, v)
    IN  (CHOOSE c \in 1..Len(d) :
            /\ \A o \in 1..Len(d) : d[c] <= d[o]
            /\ \A o \in 1..(c - 1) : d[o] > d[c]) - 1

Predict(kmeans, rows) == [i \in DOMAIN rows |-> PredictOne(kmeans, rows[i])]

\* KMeans(n_clusters) before a fit: it has no centres yet
Unfitted == [cluster_centers |-> <<>>]

\* what predict and transform raise before they compute anything: the model
\* must be fitted and the input must hold no NaN
KMeansRejects(kmeans, rows) ==
    IF kmeans = Unfitted THEN Err(NotFittedError)
    ELSE IF \E i \in DOMAIN rows : IsNaN(rows[i]) THEN Err(NaNError)
    ELSE Ok(None)

RECURSIVE Product(_)
Product(sets) ==
    IF sets = <<>> THEN {<<>>}
    ELSE {<<h>> \o t : h \in Head(sets), t \in Product(Tail(sets))}

\* KMeans(n_clusters).fit_predict(rows): the start is random, so any fixed point
\* of the iteration may come back: every centre is the mean of its rows (an
\* empty cluster keeps a centre on one of the rows) and every row carries the
\* id of its nearest centre.
KMeansFit(rows, n_clusters) ==
    LET n == Len(rows)
        members(lab, c) == {i \in 1..n : lab[i] = c - 1}
        centres(lab, c) ==
            IF members(lab, c) # {} THEN {Mean(rows, members(lab, c))}
            ELSE {Mean(rows, {i}) : i \in 1..n}
        fits(lab) ==
            {cs \in Product([c \in 1..n_clusters |-> centres(lab, c)]) :
                lab = Predict([cluster_centers |-> cs], rows)}
    IN  UNION {{[kmeans |-> [cluster_centers |-> cs], clusters |-> lab] : cs \in fits(lab)} :
                lab \in [1..n -> 0..(n_clusters - 1)]}

----------------------------------------------------------------------------
(* VectorStore *)

\* VectorStore.__init__
VectorStoreInit(embeddings, items) ==
    IF Len(embeddings) = 1 /\ embeddings[1][1] = 0 /\ items = <<Dummy>>
    THEN [embeddings |-> embeddings, items |-> items, kmeans |-> None, clusters |-> None]
    ELSE [embeddings |-> NormalizeRows(embeddings), items |-> items,
          kmeans |-> None, clusters |-> None]

\* the cluster count build_index settles on for a catalog of n >= 2 rows
ClusterCount(n, n_clusters) ==
    IF n < n_clusters THEN Max(1, Min(n - 1, n \div 2)) ELSE n_clusters

\* VectorStore._cosine_similarity(query, rows): np.dot(a, b.T)
StoreCosineSimilarity(q, rows) == [i \in DOMAIN rows |-> Dot(q, rows[i])]

ShapesAlign(q, rows) == \A i \in DOMAIN rows : Len(rows[i]) = Len(q)

\* the result list built from positions into pool, which holds catalog rows
Pairs(store, pool, sims, top) ==
    [i \in DOMAIN top |-> <<store.items[pool[top[i]]], sims[top[i]]>>]

\* the exact branch of VectorStore.search; query is already normalised
SearchExact(store, query, k) ==
    IF ~ShapesAlign(query, store.embeddings) THEN {Err(ShapeError)}
    ELSE LET sims == StoreCosineSimilarity(query, store.embeddings)
             kk == Min(k, Len(store.items))
             all == [i \in 1..Len(store.items) |-> i]
         IN  {IF \E i \in DOMAIN Reverse(LastK(p, kk)) :
                       Reverse(LastK(p, kk))[i] > Len(store.items)
              THEN Err(IndexError)
              ELSE Ok(Pairs(store, all, sims, Reverse(LastK(p, kk)))) : p \in Argsorts(sims)}

\* the approximate branch of VectorStore.search; query is already normalised
SearchApprox(store, query, k, n_probe_clusters) ==
    LET distances == Transform(store.kmeans, query)
        probes == {FirstK(p, n_probe_clusters) : p \in Argsorts(distances)}
        rowsOf(closest) ==
            Concat([j \in DOMAIN closest |-> Where(store.clusters, closest[j] - 1, 1)])
        from(closest) ==
            IF closest = <<>> THEN {Err(ConcatError)}
            ELSE LET all_indices == rowsOf(closest)
                 IN  IF all_indices = <<>> THEN SearchExact(store, Normalize(query), k)
                     ELSE LET sims == StoreCosineSimilarity(
                                          query, [j \in DOMAIN all_indices |->
                                                     store.embeddings[all_indices[j]]])
                              kk == Min(k, Len(all_indices))
                          IN  {Ok(Pairs(store, all_indices, sims, Reverse(LastK(p, kk)))) :
                                  p \in Argsorts(sims)}
    IN  IF ~KMeansRejects(store.kmeans, <<query>>).ok
        THEN {KMeansRejects(store.kmeans, <<query>>)}
        ELSE IF ~ShapesAlign(query, store.kmeans.cluster_centers) THEN {Err(ShapeError)}
        ELSE UNION {from(closest) : closest \in probes}

\* VectorStore.search: every result the call may return
Search(store, query_embedding, k, use_approx, n_probe_clusters) ==
    IF Len(store.items) = 0 THEN {Ok(<<>>)}
    ELSE LET query == Normalize(query_embedding)
         IN  IF ~use_approx \/ store.kmeans = None
             THEN SearchExact(store, query, k)
             ELSE SearchApprox(store, query, k, n_probe_clusters)

\* h5py stores the labels as UTF-8 bytes; load_index decodes them
EncodeItems(items) == [i \in DOMAIN items |-> [utf8 |-> items[i]]]
DecodeItems(stored) == [i \in DOMAIN stored |-> stored[i].utf8]

\* save_index as it would be if only the embeddings file were looked for
SaveIndexChecksH5Only(store, dsk, overwrite) ==
    IF store.kmeans = None THEN [disk |-> dsk, out |-> Err(IndexNotBuiltError)]
    ELSE IF ~overwrite /\ dsk.h5 # NoFile
         THEN [disk |-> [dsk EXCEPT !.exists = TRUE], out |-> Err(FileExistsError)]
         ELSE [disk |-> [exists |-> TRUE,
                         h5 |-> [embeddings |-> store.embeddings,
                                 items |-> EncodeItems(store.items)],
                         model |-> [kmeans |-> store.kmeans, clusters |-> store.clusters]],
               out |-> Ok(None)]

\* save_index as it would be if the directory were made before the store is
\* tested for a partition model
SaveIndexMakesDirFirst(store, dsk, overwrite) ==
    IF store.kmeans = None
    THEN [disk |-> [dsk EXCEPT !.exists = TRUE], out |-> Err(IndexNotBuiltError)]
    ELSE IF ~overwrite /\ (dsk.h5 # NoFile \/ dsk.model # NoFile)
         THEN [disk |-> [dsk EXCEPT !.exists = TRUE], out |-> Err(FileExistsError)]
         ELSE [disk |-> [exists |-> TRUE,
                         h5 |-> [embeddings |-> store.embeddings,
                                 items |-> EncodeItems(store.items)],
                         model |-> [kmeans |-> store.kmeans, clusters |-> store.clusters]],
               out |-> Ok(None)]

\* VectorStore.save_index: the directory afterwards, and None or the error
SaveIndex(store, dsk, overwrite) ==
    IF store.kmeans = None THEN [disk |-> dsk, out |-> Err(IndexNotBuiltError)]
    ELSE IF ~overwrite /\ (dsk.h5 # NoFile \/ dsk.model # NoFile)
         THEN [disk |-> [dsk EXCEPT !.exists = TRUE], out |-> Err(FileExistsError)]
         ELSE [disk |-> [exists |-> TRUE,
                         h5 |-> [embeddings |-> store.embeddings,
                                 items |-> EncodeItems(store.items)],
                         model |-> [kmeans |-> store.kmeans, clusters |-> store.clusters]],
               out |-> Ok(None)]

\* load_index as it would be if the cluster ids were not read back
StoreLoadIndexNoClusters(store, dsk) ==
    IF dsk.h5 = NoFile \/ dsk.model = NoFile
    THEN [store |-> store, out |-> Err(FileNotFoundError)]
    ELSE [store |-> [embeddings |-> dsk.h5.embeddings,
                     items |-> DecodeItems(dsk.h5.items),
                     kmeans |-> dsk.model.kmeans,
                     clusters |-> store.clusters],
          out |-> Ok(None)]

\* load_index as it would be if each file were read as soon as it is found
StoreLoadIndexPartial(store, dsk) ==
    LET half == IF dsk.h5 = NoFile THEN store
                ELSE [store EXCEPT !.embeddings = dsk.h5.embeddings,
                                   !.items = DecodeItems(dsk.h5.items)]
    IN  IF dsk.h5 = NoFile \/ dsk.model = NoFile
        THEN [store |-> half, out |-> Err(FileNotFoundError)]
        ELSE [store |-> [half EXCEPT !.kmeans = dsk.model.kmeans,
                                     !.clusters = dsk.model.clusters],
              out |-> Ok(None)]

\* VectorStore.load_index: the store afterwards, and None or the error
StoreLoadIndex(store, dsk) ==
    IF dsk.h5 = NoFile \/ dsk.model = NoFile
    THEN [store |-> store, out |-> Err(FileNotFoundError)]
    ELSE [store |-> [embeddings |-> dsk.h5.embeddings,
                     items |-> DecodeItems(dsk.h5.items),
                     kmeans |-> dsk.model.kmeans,
                     clusters |-> dsk.model.clusters],
          out |-> Ok(None)]

\* save_index when a directory was given (if save_path: ...)
SaveIfGiven(store, dsk, save_dir, overwrite) ==
    IF save_dir = NoDir THEN [disk |-> dsk, out |-> Ok(None)]
    ELSE SaveIndex(store, dsk, overwrite)

\* VectorStore.build_index: every (store, directory, error) it may end in
StoreBuildIndex(store, dsk, n_clusters, save_path, overwrite) ==
    IF Len(store.items) <= 1
    THEN {[store |-> [store EXCEPT !.kmeans = None,
                                   !.clusters = [i \in 1..Len(store.items) |-> 0]],
           disk |-> dsk, out |-> Ok(None)]}
    ELSE IF \E i \in DOMAIN store.embeddings : IsNaN(store.embeddings[i])
    THEN {[store |-> [store EXCEPT !.kmeans = Unfitted], disk |-> dsk,
           out |-> Err(NaNError)]}
    ELSE {LET built == [store EXCEPT !.kmeans = fit.kmeans, !.clusters = fit.clusters]
              w == SaveIfGiven(built, dsk, save_path, overwrite)
          IN  [store |-> built, disk |-> w.disk, out |-> w.out] :
            fit \in KMeansFit(store.embeddings, ClusterCount(Len(store.items), n_clusters))}

\* add_items as it would be if labels already in the catalog were skipped
AddItemsDedup(store, dsk, new_embeddings, new_items, save_dir, overwrite) ==
    LET normalized == NormalizeRows(new_embeddings)
        fresh == {i \in DOMAIN new_items : new_items[i] \notin Range(store.items)}
        IsFresh(i) == i \in fresh
        kept == SelectSeq([i \in DOMAIN new_items |-> i], IsFresh)
        rows == [j \in DOMAIN kept |-> normalized[kept[j]]]
        grown == [store EXCEPT
                     !.embeddings = store.embeddings \o rows,
                     !.items = store.items \o [j \in DOMAIN kept |-> new_items[kept[j]]],
                     !.clusters = IF store.kmeans # None
                                  THEN store.clusters \o Predict(store.kmeans, rows)
                                  ELSE store.clusters]
        w == SaveIfGiven(grown, dsk, save_dir, overwrite)
    IN  [store |-> grown, disk |-> w.disk, out |-> w.out]

\* add_items as it would be if the labels were extended only after the save
AddItemsExtendLast(store, dsk, new_embeddings, new_items, save_dir, overwrite) ==
    LET normalized == NormalizeRows(new_embeddings)
    IN  IF ~ShapesAlign(normalized[1], store.embeddings)
        THEN [store |-> store, disk |-> dsk, out |-> Err(ShapeError)]
        ELSE LET stacked == [store EXCEPT
                                !.embeddings = store.embeddings \o normalized,
                                !.clusters = IF store.kmeans # None
                                             THEN store.clusters \o Predict(store.kmeans, normalized)
                                             ELSE store.clusters]
                 grown == [stacked EXCEPT !.items = store.items \o new_items]
                 w == SaveIfGiven(grown, dsk, save_dir, overwrite)
             IN  [store |-> IF w.out.ok THEN grown ELSE stacked,
                  disk |-> w.disk, out |-> w.out]

\* add_items as it would be if the partition were fitted again on the grown
\* catalog
AddItemsRefit(store, dsk, new_embeddings, new_items, save_dir, overwrite) ==
    LET normalized == NormalizeRows(new_embeddings)
    IN  IF ~ShapesAlign(normalized[1], store.embeddings)
        THEN [store |-> store, disk |-> dsk, out |-> Err(ShapeError)]
        ELSE LET rows == store.embeddings \o normalized
                 fit == IF store.kmeans # None
                        THEN CHOOSE f \in KMeansFit(rows, Len(store.kmeans.cluster_centers)) : TRUE
                        ELSE [kmeans |-> store.kmeans, clusters |-> store.clusters]
                 grown == [embeddings |-> rows,
                           items |-> store.items \o new_items,
                           kmeans |-> fit.kmeans,
                           clusters |-> fit.clusters]
                 w == SaveIfGiven(grown, dsk, save_dir, overwrite)
             IN  [store |-> grown, disk |-> w.disk, out |-> w.out]

\* VectorStore.add_items: the store and the directory afterwards, and the error
AddItems(store, dsk, new_embeddings, new_items, save_dir, overwrite) ==
    LET normalized == NormalizeRows(new_embeddings)
    IN  IF ~ShapesAlign(normalized[1], store.embeddings)
        THEN [store |-> store, disk |-> dsk, out |-> Err(ShapeError)]
        ELSE LET appended == [store EXCEPT
                                 !.embeddings = store.embeddings \o normalized,
                                 !.items = store.items \o new_items]
                 grown == [appended EXCEPT
                              !.clusters = IF store.kmeans # None
                                           THEN store.clusters \o Predict(store.kmeans, normalized)
                                           ELSE store.clusters]
                 w == SaveIfGiven(grown, dsk, save_dir, overwrite)
             IN  IF store.kmeans # None /\ ~KMeansRejects(store.kmeans, normalized).ok
                 THEN [store |-> appended, disk |-> dsk,
                       out |-> KMeansRejects(store.kmeans, normalized)]
                 ELSE [store |-> grown, disk |-> w.disk, out |-> w.out]

----------------------------------------------------------------------------
(* CompanyNameMatcher *)

\* get_embeddings: preprocess every name, one call of the producer for the list
Keys(company_names) == [i \in DOMAIN company_names |-> PreprocessCompanyName(company_names[i])]
GetEmbeddings(company_names) == Encode(Keys(company_names))

\* the position of key in the cache, 0 when it is not cached
CachePos(cache, key) ==
    IF \E i \in DOMAIN cache : cache[i].key = key
    THEN CHOOSE i \in DOMAIN cache : cache[i].key = key
    ELSE 0

StopIteration == [type |-> "StopIteration", msg |-> ""]

\* get_embedding as it would be if the cache were keyed by the name as given
GetEmbeddingRawKey(cache, cfg, company_name) ==
    LET key == PreprocessCompanyName(company_name)
        at == CachePos(cache, company_name)
    IN  IF cfg.use_cache /\ at # 0
        THEN [out |-> Ok(cache[at].embedding), cache |-> cache, encoded |-> <<>>]
        ELSE LET embedding == Encode(<<key>>)[1]
                 entry == [key |-> company_name, embedding |-> embedding]
             IN  IF ~cfg.use_cache
                 THEN [out |-> Ok(embedding), cache |-> cache, encoded |-> <<<<key>>>>]
                 ELSE IF Len(cache) >= cfg.cache_size
                      THEN IF cache = <<>>
                           THEN [out |-> Err(StopIteration), cache |-> cache,
                                 encoded |-> <<<<key>>>>]
                           ELSE [out |-> Ok(embedding), cache |-> Tail(cache) \o <<entry>>,
                                 encoded |-> <<<<key>>>>]
                      ELSE [out |-> Ok(embedding), cache |-> cache \o <<entry>>,
                            encoded |-> <<<<key>>>>]

\* get_embedding as it would be if the vector were stored whether or not the
\* cache is enabled
GetEmbeddingAlwaysStores(cache, cfg, company_name) ==
    LET key == PreprocessCompanyName(company_name)
        at == CachePos(cache, key)
    IN  IF cfg.use_cache /\ at # 0
        THEN [out |-> Ok(cache[at].embedding), cache |-> cache, encoded |-> <<>>]
        ELSE LET embedding == Encode(<<key>>)[1]
                 entry == [key |-> key, embedding |-> embedding]
                 others == SelectSeq(cache, LAMBDA e : e.key # key)
             IN  IF Len(cache) >= cfg.cache_size
                 THEN IF cache = <<>>
                      THEN [out |-> Err(StopIteration), cache |-> cache,
                            encoded |-> <<<<key>>>>]
                      ELSE [out |-> Ok(embedding), cache |-> Tail(others) \o <<entry>>,
                            encoded |-> <<<<key>>>>]
                 ELSE [out |-> Ok(embedding), cache |-> others \o <<entry>>,
                       encoded |-> <<<<key>>>>]

\* get_embedding as it would be if a hit moved the entry to the back of the
\* cache (least recently used out first)
GetEmbeddingLru(cache, cfg, company_name) ==
    LET key == PreprocessCompanyName(company_name)
        at == CachePos(cache, key)
    IN  IF cfg.use_cache /\ at # 0
        THEN [out |-> Ok(cache[at].embedding),
              cache |-> SubSeq(cache, 1, at - 1) \o SubSeq(cache, at + 1, Len(cache))
                            \o <<cache[at]>>,
              encoded |-> <<>>]
        ELSE LET embedding == Encode(<<key>>)[1]
                 entry == [key |-> key, embedding |-> embedding]
             IN  IF ~cfg.use_cache
                 THEN [out |-> Ok(embedding), cache |-> cache, encoded |-> <<<<key>>>>]
                 ELSE IF Len(cache) >= cfg.cache_size
                      THEN IF cache = <<>>
                           THEN [out |-> Err(StopIteration), cache |-> cache,
                                 encoded |-> <<<<key>>>>]
                           ELSE [out |-> Ok(embedding), cache |-> Tail(cache) \o <<entry>>,
                                 encoded |-> <<<<key>>>>]
                      ELSE [out |-> Ok(embedding), cache |-> cache \o <<entry>>,
                            encoded |-> <<<<key>>>>]

\* get_embedding: the vector (or the error), the cache afterwards, and the
\* batches sent to the producer
GetEmbedding(cache, cfg, company_name) ==
    LET key == PreprocessCompanyName(company_name)
        at == CachePos(cache, key)
    IN  IF cfg.use_cache /\ at # 0
        THEN [out |-> Ok(cache[at].embedding), cache |-> cache, encoded |-> <<>>]
        ELSE LET embedding == Encode(<<key>>)[1]
                 entry == [key |-> key, embedding |-> embedding]
             IN  IF ~cfg.use_cache
                 THEN [out |-> Ok(embedding), cache |-> cache, encoded |-> <<<<key>>>>]
                 ELSE IF Len(cache) >= cfg.cache_size
                      THEN IF cache = <<>>
                           THEN [out |-> Err(StopIteration), cache |-> cache,
                                 encoded |-> <<<<key>>>>]
                           ELSE [out |-> Ok(embedding), cache |-> Tail(cache) \o <<entry>>,
                                 encoded |-> <<<<key>>>>]
                      ELSE [out |-> Ok(embedding), cache |-> cache \o <<entry>>,
                            encoded |-> <<<<key>>>>]

\* CompanyNameMatcher._cosine_similarity(a, rows): dot products over the norms
CosineSimilarity(a, rows) ==
    [i \in DOMAIN rows |->
        IF IsNaN(a) \/ IsZero(a) \/ IsNaN(rows[i]) \/ IsZero(rows[i]) THEN NaN
        ELSE (Dot(a, rows[i]) * Unit * Unit) \div (Norm(a) * Norm(rows[i]))]

\* the filter as it would be if nothing were dropped
AboveThresholdAll(matches, threshold) == matches

\* [m for m in matches if m[1] >= threshold]
AboveThreshold(matches, threshold) ==
    LET Keep(m) == m[2] # NaN /\ m[2] >= threshold IN SelectSeq(matches, Keep)

\* the candidates the approximate branch asks the store for: max(k * 2, 20)
MinCandidates == 20
Candidates(k) == Max(k * 2, MinCandidates)

\* _find_matches_single: every result the call may return
FindMatchesSingle(store, target_embedding, threshold, k, use_approx, n_probe_clusters) ==
    IF use_approx
    THEN {IF found.ok THEN Ok(FirstK(AboveThreshold(found.val, threshold), k)) ELSE found :
            found \in Search(store, target_embedding, Candidates(k), TRUE, n_probe_clusters)}
    ELSE IF ~ShapesAlign(target_embedding, store.embeddings) THEN {Err(ShapeError)}
         ELSE LET similarities == CosineSimilarity(target_embedding, store.embeddings)
                  zipped == [i \in 1..Min(Len(store.items), Len(similarities)) |->
                                <<store.items[i], similarities[i]>>]
              IN  {Ok(FirstK(SortedDesc(AboveThreshold(zipped, threshold)), k))}

\* the whole list as one batch, whatever the batch size
BatchesWhole(target_companies, batch_size) ==
    IF target_companies = <<>> THEN <<>> ELSE <<target_companies>>

\* target_companies[i : i + batch_size] for i in range(0, len, batch_size)
Batches(target_companies, batch_size) ==
    LET n == Len(target_companies)
    IN  [j \in 1..((n + batch_size - 1) \div batch_size) |->
            SubSeq(target_companies, (j - 1) * batch_size + 1, Min(j * batch_size, n))]

\* the first error of a list of outcomes, or all their values
Gather(outs) ==
    IF \E i \in DOMAIN outs : ~outs[i].ok
    THEN outs[CHOOSE i \in DOMAIN outs : ~outs[i].ok /\ \A j \in 1..(i - 1) : outs[j].ok]
    ELSE Ok([i \in DOMAIN outs |-> outs[i].val])

\* one batch: embed it in one call, then search for every embedding in turn
ProcessBatch(store, batch, threshold, k, use_approx, n_probe_clusters) ==
    LET batch_embeddings == GetEmbeddings(batch)
    IN  {Gather(outs) :
            outs \in Product([i \in DOMAIN batch |->
                        FindMatchesSingle(store, batch_embeddings[i], threshold, k,
                                          use_approx, n_probe_clusters)])}

\* _batch_find_matches_sequential from batch number from on: the results (or the
\* error that ended the call) and the batches sent to the producer
RECURSIVE Sequential(_, _, _, _, _, _, _)
Sequential(store, batches, from, threshold, k, use_approx, n_probe_clusters) ==
    IF from > Len(batches) THEN {[out |-> Ok(<<>>), encoded |-> <<>>]}
    ELSE UNION {
           IF ~b.ok THEN {[out |-> b, encoded |-> <<Keys(batches[from])>>]}
           ELSE {[out |-> IF rest.out.ok THEN Ok(b.val \o rest.out.val) ELSE rest.out,
                  encoded |-> <<Keys(batches[from])>> \o rest.encoded] :
                   rest \in Sequential(store, batches, from + 1, threshold, k,
                                       use_approx, n_probe_clusters)} :
           b \in ProcessBatch(store, batches[from], threshold, k, use_approx,
                              n_probe_clusters)}

\* the workers of the pool: n_jobs, or every core when it is not positive,
\* and never more than the cores
Workers(n_jobs) == Min(IF n_jobs <= 0 THEN MaxWorkers ELSE n_jobs, MaxWorkers)

\* a single name, or a list of names
Str(name) == [is_str |-> TRUE, v |-> name]
List(names) == [is_str |-> FALSE, v |-> names]

Init ==
    /\ vector_store = None
    /\ embedding_cache = <<>>
    /\ config = [use_cache |-> TRUE, cache_size |-> 1]
    /\ disk = [exists |-> FALSE, h5 |-> NoFile, model |-> NoFile]
    /\ saved = None
    /\ given = None
    /\ ret = [op |-> "__init__"]
    /\ par = None
    /\ adding = None

\* CompanyNameMatcher(): a fresh orchestrator (the directory stays as it is)
Construct ==
    /\ par = None
    /\ vector_store' = None
    /\ embedding_cache' = <<>>
    /\ given' = None
    /\ ret' = [op |-> "__init__"]
    /\ UNCHANGED <<config, disk, saved, par, adding>>

\* CompanyNameMatcher.build_index
BuildIndex(company_list, n_clusters, save_dir) ==
    /\ par = None
    /\ LET fresh == VectorStoreInit(GetEmbeddings(company_list), company_list)
           made == IF save_dir # NoDir THEN [disk EXCEPT !.exists = TRUE] ELSE disk
       IN  \E b \in StoreBuildIndex(fresh, made, n_clusters, save_dir, TRUE) :
              /\ vector_store' = b.store
              /\ disk' = b.disk
              /\ saved' = IF b.out.ok /\ save_dir # NoDir /\ b.store.kmeans # None
                          THEN b.store ELSE saved
              /\ given' = company_list
              /\ ret' = [op |-> "build_index", company_list |-> company_list,
                         n_clusters |-> n_clusters, save_dir |-> save_dir,
                         out |-> b.out, encoded |-> <<Keys(company_list)>>]
    /\ UNCHANGED <<embedding_cache, config, par, adding>>

\* CompanyNameMatcher.load_index
LoadIndex ==
    /\ par = None
    /\ LET dummy == VectorStoreInit(<<<<0>>>>, <<Dummy>>)
           l == StoreLoadIndex(dummy, disk)
       IN  /\ vector_store' = l.store
           /\ ret' = [op |-> "load_index", out |-> l.out, encoded |-> <<>>]
    /\ given' = None
    /\ UNCHANGED <<embedding_cache, config, disk, saved, par, adding>>

\* CompanyNameMatcher.expand_index
ExpandIndex(new_company_list, save_dir) ==
    /\ par = None
    /\ IF vector_store = None
       THEN /\ ret' = [op |-> "expand_index", new_company_list |-> new_company_list,
                       save_dir |-> save_dir, out |-> Err(NoIndexError), encoded |-> <<>>]
            /\ UNCHANGED <<vector_store, disk, saved, given>>
       ELSE /\ Len(vector_store.items) + Len(new_company_list) <= MaxCatalog
            /\ LET a == AddItems(vector_store, disk, GetEmbeddings(new_company_list),
                                 new_company_list, save_dir, TRUE)
               IN  /\ vector_store' = a.store
                   /\ disk' = a.disk
                   /\ saved' = IF a.out.ok /\ save_dir # NoDir THEN a.store ELSE saved
                   /\ given' = IF given = None THEN None ELSE given \o new_company_list
                   /\ ret' = [op |-> "expand_index", new_company_list |-> new_company_list,
                              save_dir |-> save_dir, out |-> a.out,
                              encoded |-> <<Keys(new_company_list)>>]
    /\ UNCHANGED <<embedding_cache, config, par, adding>>

\* vector_store.save_index(Dir, overwrite) called on the orchestrator's store
StoreSave(overwrite) ==
    /\ par = None
    /\ vector_store # None
    /\ LET w == SaveIndex(vector_store, disk, overwrite)
       IN  /\ disk' = w.disk
           /\ saved' = IF w.out.ok THEN vector_store ELSE saved
           /\ ret' = [op |-> "store.save_index", overwrite |-> overwrite,
                      out |-> w.out, encoded |-> <<>>]
    /\ UNCHANGED <<vector_store, embedding_cache, config, given, par, adding>>

\* vector_store.load_index(Dir) called on the orchestrator's store
StoreLoad ==
    /\ par = None
    /\ vector_store # None
    /\ LET l == StoreLoadIndex(vector_store, disk)
       IN  /\ vector_store' = l.store
           /\ given' = IF l.out.ok THEN None ELSE given
           /\ ret' = [op |-> "store.load_index", out |-> l.out, encoded |-> <<>>]
    /\ UNCHANGED <<embedding_cache, config, disk, saved, par, adding>>

\* another process removes one artifact from the directory
RemoveArtifact(which) ==
    /\ par = None
    /\ disk[which] # NoFile
    /\ disk' = [disk EXCEPT ![which] = NoFile]
    /\ ret' = [op |-> "remove", which |-> which]
    /\ UNCHANGED <<vector_store, embedding_cache, config, saved, given, par, adding>>

Call(target, threshold, k, use_approx, batch_size, n_jobs, n_probe_clusters) ==
    [target |-> target, threshold |-> threshold, k |-> k, use_approx |-> use_approx,
     batch_size |-> batch_size, n_jobs |-> n_jobs, n_probe_clusters |-> n_probe_clusters]

\* what a find_matches call came back with; completed lists the batches of a
\* parallel call in the order the workers finished them
Returned(call, out, encoded, completed) ==
    [op |-> "find_matches", call |-> call, out |-> out, encoded |-> encoded,
     completed |-> completed]

\* find_matches as it would be if the name were embedded before the index is
\* looked for
FindMatchesEmbedFirst(target, threshold, k, use_approx, batch_size, n_jobs, n_probe_clusters) ==
    LET call == Call(target, threshold, k, use_approx, batch_size, n_jobs, n_probe_clusters)
        e == GetEmbedding(embedding_cache, config, target.v)
    IN  /\ par = None
        /\ vector_store = None
        /\ target.is_str
        /\ embedding_cache' = e.cache
        /\ ret' = Returned(call, Err(NoIndexError), e.encoded, <<>>)
        /\ UNCHANGED <<vector_store, config, disk, saved, given, par, adding>>

\* CompanyNameMatcher.find_matches, up to its return or, for a list and
\* n_jobs # 1, up to the submission of the batches to the pool
FindMatches(target, threshold, k, use_approx, batch_size, n_jobs, n_probe_clusters) ==
    LET call == Call(target, threshold, k, use_approx, batch_size, n_jobs, n_probe_clusters)
    IN
    /\ par = None
    /\ IF vector_store = None
       THEN /\ ret' = Returned(call, Err(NoIndexError), <<>>, <<>>)
            /\ UNCHANGED <<embedding_cache, par>>
       ELSE IF target.is_str
       THEN LET e == GetEmbedding(embedding_cache, config, target.v)
            IN  /\ embedding_cache' = e.cache
                /\ IF ~e.out.ok THEN ret' = Returned(call, e.out, e.encoded, <<>>)
                   ELSE \E found \in FindMatchesSingle(vector_store, e.out.val, threshold, k,
                                                       use_approx, n_probe_clusters) :
                           ret' = Returned(call, found, e.encoded, <<>>)
                /\ UNCHANGED par
       ELSE IF n_jobs = 1
       THEN /\ \E r \in Sequential(vector_store, Batches(target.v, batch_size), 1,
                                   threshold, k, use_approx, n_probe_clusters) :
                   ret' = Returned(call, r.out, r.encoded, <<>>)
            /\ UNCHANGED <<embedding_cache, par>>
       ELSE /\ par' = [call |-> call,
                       batches |-> Batches(target.v, batch_size),
                       futures |-> [j \in DOMAIN Batches(target.v, batch_size) |-> None],
                       running |-> [w \in 1..Workers(n_jobs) |-> 0],
                       next |-> 1,
                       completed |-> <<>>,
                       encoded |-> <<>>]
            /\ ret' = [op |-> "find_matches.submitted"]
            /\ UNCHANGED embedding_cache
    /\ UNCHANGED <<vector_store, config, disk, saved, given, adding>>

\* CompanyNameMatcher.get_embedding
GetEmbeddingCall(company_name) ==
    /\ par = None
    /\ LET e == GetEmbedding(embedding_cache, config, company_name)
       IN  /\ embedding_cache' = e.cache
           /\ ret' = [op |-> "get_embedding", company_name |-> company_name,
                      out |-> e.out, encoded |-> e.encoded]
    /\ UNCHANGED <<vector_store, config, disk, saved, given, par, adding>>

\* CompanyNameMatcher(use_cache=..., cache_size=...): a fresh orchestrator with
\* the cache configured
ConstructWith(use_cache, cache_size) ==
    /\ par = None
    /\ vector_store' = None
    /\ embedding_cache' = <<>>
    /\ config' = [use_cache |-> use_cache, cache_size |-> cache_size]
    /\ given' = None
    /\ ret' = [op |-> "__init__"]
    /\ UNCHANGED <<disk, saved, par, adding>>

\* CompanyNameMatcher.compare_companies: get_embedding for each name in turn,
\* then the cosine similarity of the two vectors
CompareCompanies(company_a, company_b) ==
    /\ par = None
    /\ LET a == GetEmbedding(embedding_cache, config, company_a)
           b == GetEmbedding(a.cache, config, company_b)
       IN  IF ~a.out.ok
           THEN /\ embedding_cache' = a.cache
                /\ ret' = [op |-> "compare_companies", company_a |-> company_a,
                           company_b |-> company_b, out |-> a.out, encoded |-> a.encoded]
           ELSE /\ embedding_cache' = b.cache
                /\ ret' = [op |-> "compare_companies", company_a |-> company_a,
                           company_b |-> company_b,
                           out |-> IF b.out.ok
                                   THEN Ok(CosineSimilarity(a.out.val, <<b.out.val>>)[1])
                                   ELSE b.out,
                           encoded |-> a.encoded \o b.encoded]
    /\ UNCHANGED <<vector_store, config, disk, saved, given, par, adding>>

\* a worker thread of the pool takes the next batch from the work queue
WorkerTake(w) ==
    /\ par # None
    /\ w \in DOMAIN par.running
    /\ par.running[w] = 0
    /\ par.next <= Len(par.batches)
    /\ par' = [par EXCEPT !.running[w] = par.next, !.next = par.next + 1]
    /\ UNCHANGED <<vector_store, embedding_cache, config, disk, saved, given, ret, adding>>

\* a worker as it would be if process_batch embedded the names one by one
\* through get_embedding, which fills the cache
WorkerFinishCaching(w) ==
    /\ par # None
    /\ w \in DOMAIN par.running
    /\ par.running[w] # 0
    /\ LET j == par.running[w]
           c == par.call
       IN  /\ \E b \in ProcessBatch(vector_store, par.batches[j], c.threshold, c.k,
                                    c.use_approx, c.n_probe_clusters) :
                 par' = [par EXCEPT !.running[w] = 0,
                                    !.futures[j] = b,
                                    !.completed = par.completed \o <<j>>,
                                    !.encoded = par.encoded \o <<Keys(par.batches[j])>>]
           /\ embedding_cache' = GetEmbedding(embedding_cache, config, par.batches[j][1]).cache
    /\ UNCHANGED <<vector_store, config, disk, saved, given, ret, adding>>

\* a worker thread runs process_batch on its batch and completes the future
WorkerFinish(w) ==
    /\ par # None
    /\ w \in DOMAIN par.running
    /\ par.running[w] # 0
    /\ LET j == par.running[w]
           c == par.call
       IN  \E b \in ProcessBatch(vector_store, par.batches[j], c.threshold, c.k,
                                 c.use_approx, c.n_probe_clusters) :
              par' = [par EXCEPT !.running[w] = 0,
                                 !.futures[j] = b,
                                 !.completed = par.completed \o <<j>>,
                                 !.encoded = par.encoded \o <<Keys(par.batches[j])>>]
    /\ UNCHANGED <<vector_store, embedding_cache, config, disk, saved, given, ret, adding>>

\* the order of the results as it would be if they were taken as they complete
CollectOrderCompleted(p) == p.completed

\* the batches in the order list(executor.map(...)) yields their results
CollectOrder(p) == [j \in DOMAIN p.batches |-> j]

\* list(executor.map(process_batch, batches)) and the flattening: the results
\* are taken batch by batch; the first failed batch ends the call with its error
Collect ==
    /\ par # None
    /\ LET order == CollectOrder(par)
           outs == [i \in DOMAIN order |-> par.futures[order[i]]]
           failed == {i \in DOMAIN outs : outs[i] # None /\ ~outs[i].ok}
           upto == IF failed = {} THEN Len(outs)
                   ELSE CHOOSE i \in failed : \A o \in failed : i <= o
       IN  /\ \A i \in 1..upto : outs[i] # None
           /\ \A w \in DOMAIN par.running : par.running[w] = 0
           /\ ret' = Returned(par.call,
                              IF failed # {} THEN outs[upto]
                              ELSE Ok(Concat([i \in DOMAIN outs |-> outs[i].val])),
                              par.encoded, par.completed)
    /\ par' = None
    /\ UNCHANGED <<vector_store, embedding_cache, config, disk, saved, given, adding>>

\* expand_index called on another thread while a find_matches is on the pool:
\* the checks, get_embeddings and add_items up to the normalisation of the new
\* rows, which touch nothing the workers read
ExpandStart(new_company_list) ==
    /\ par # None
    /\ adding = None
    /\ vector_store # None
    /\ Len(vector_store.items) + Len(new_company_list) <= MaxCatalog
    /\ adding' = [new_items |-> new_company_list,
                  normalized |-> NormalizeRows(GetEmbeddings(new_company_list)),
                  at |-> "vstack"]
    /\ UNCHANGED <<vector_store, embedding_cache, config, disk, saved, given, ret, par>>

\* what expand_index leaves behind when add_items is over
Expanded(out) ==
    [op |-> "expand_index", new_company_list |-> adding.new_items, save_dir |-> NoDir,
     out |-> out, encoded |-> <<Keys(adding.new_items)>>]

\* add_items: self.embeddings = np.vstack([self.embeddings, normalized_embeddings])
AddItemsStack ==
    /\ adding # None
    /\ adding.at = "vstack"
    /\ IF ~ShapesAlign(adding.normalized[1], vector_store.embeddings)
       THEN /\ adding' = None
            /\ ret' = Expanded(Err(ShapeError))
            /\ UNCHANGED vector_store
       ELSE /\ vector_store' = [vector_store EXCEPT
                                  !.embeddings = vector_store.embeddings \o adding.normalized]
            /\ adding' = [adding EXCEPT !.at = "extend"]
            /\ UNCHANGED ret
    /\ UNCHANGED <<embedding_cache, config, disk, saved, given, par>>

\* add_items: self.items.extend(new_items)
AddItemsExtend ==
    /\ adding # None
    /\ adding.at = "extend"
    /\ vector_store' = [vector_store EXCEPT !.items = vector_store.items \o adding.new_items]
    /\ given' = IF given = None THEN None ELSE given \o adding.new_items
    /\ adding' = [adding EXCEPT !.at = "predict"]
    /\ UNCHANGED <<embedding_cache, config, disk, saved, ret, par>>

\* add_items: the cluster ids of the new rows, when there is a partition
\* model, and the return (no save_dir)
AddItemsPredict ==
    /\ adding # None
    /\ adding.at = "predict"
    /\ IF vector_store.kmeans = None
       THEN /\ ret' = Expanded(Ok(None))
            /\ UNCHANGED vector_store
       ELSE IF ~KMeansRejects(vector_store.kmeans, adding.normalized).ok
       THEN /\ ret' = Expanded(KMeansRejects(vector_store.kmeans, adding.normalized))
            /\ UNCHANGED vector_store
       ELSE /\ vector_store' = [vector_store EXCEPT
                                  !.clusters = vector_store.clusters
                                                 \o Predict(vector_store.kmeans, adding.normalized)]
            /\ ret' = Expanded(Ok(None))
    /\ adding' = None
    /\ UNCHANGED <<embedding_cache, config, disk, saved, given, par>>

\* vector_store.search(query_embedding, k, use_approx, n_probe_clusters) called
\* on the orchestrator's store
StoreSearch(query_embedding, k, use_approx, n_probe_clusters) ==
    /\ par = None
    /\ vector_store # None
    /\ \E found \in Search(vector_store, query_embedding, k, use_approx, n_probe_clusters) :
          ret' = [op |-> "store.search", query_embedding |-> query_embedding, k |-> k,
                  use_approx |-> use_approx, n_probe_clusters |-> n_probe_clusters,
                  out |-> found]
    /\ UNCHANGED <<vector_store, embedding_cache, config, disk, saved, given, par, adding>>

----------------------------------------------------------------------------
(* The index life cycle and its persistence *)

\* the names the catalogs of this specification are made of
StoredNames == {<<"acme", "corp">>, <<"globex">>}

BuildLists == SeqsUpTo(StoredNames, 1, MaxBuild)
ExpandLists == SeqsUpTo(StoredNames, 1, MaxExpand)

Next ==
    \/ Construct
    \/ \E l \in BuildLists, c \in 1..MaxClusters, d \in {NoDir, Dir} : BuildIndex(l, c, d)
    \/ LoadIndex
    \/ \E l \in ExpandLists, d \in {NoDir, Dir} : ExpandIndex(l, d)
    \/ \E o \in BOOLEAN : StoreSave(o)
    \/ StoreLoad
    \/ \E w \in {"h5", "model"} : RemoveArtifact(w)

Spec == Init /\ [][Next]_vars

----------------------------------------------------------------------------
(* Searching the store: catalogs kept in memory, VectorStore.search *)

SearchBuildLists == SeqsUpTo(CatalogNames, 1, MaxBuild)
SearchExpandLists == SeqsUpTo(CatalogNames, 1, MaxExpand)
QueryEmbeddings == {EncodeOne(PreprocessCompanyName(q)) : q \in QueryNames}

\* n_probe_clusters is read in approximate mode only
Probes(use_approx) == IF use_approx THEN 0..MaxProbe ELSE {1}

NextSearch ==
    \/ \E l \in SearchBuildLists, c \in 1..MaxClusters : BuildIndex(l, c, NoDir)
    \/ \E l \in SearchExpandLists : ExpandIndex(l, NoDir)
    \/ \E q \in QueryEmbeddings, k \in 0..MaxK, a \in BOOLEAN :
          \E n \in Probes(a) : StoreSearch(q, k, a, n)

SpecSearch == Init /\ [][NextSearch]_vars

----------------------------------------------------------------------------
(* Matching one name: find_matches on a single name, and expand_index *)

MatchNames == {<<"acme", "corp">>, <<"apex">>}
MatchBuildLists == SeqsUpTo(MatchNames, 1, MaxBuild)
MatchExpandLists == SeqsUpTo(MatchNames, 1, MaxExpand)
Thresholds == {0, 20}

NextMatch ==
    \/ \E l \in MatchBuildLists, c \in 1..MaxClusters : BuildIndex(l, c, NoDir)
    \/ \E l \in MatchExpandLists : ExpandIndex(l, NoDir)
    \/ \E q \in QueryNames, t \in Thresholds, k \in 0..MaxK, a \in BOOLEAN :
          \E n \in Probes(a) : FindMatches(Str(q), t, k, a, 1, 1, n)

SpecMatch == Init /\ [][NextMatch]_vars

----------------------------------------------------------------------------
(* Batches: find_matches on lists of names, in turn and on the worker pool *)

BatchBuildLists == {<<<<"acme", "corp">>, <<"apex">>>>}
BatchExpandLists == {<<<<"apex">>>>}
QueryLists == SeqsUpTo(QueryNames, 1, MaxQueries)
JobCounts == {-1, 1, MaxWorkers}

NextBatch ==
    \/ \E l \in BatchBuildLists : BuildIndex(l, MaxClusters, NoDir)
    \/ \E l \in BatchExpandLists : ExpandIndex(l, NoDir)
    \/ \E q \in QueryLists, a \in BOOLEAN, b \in 1..MaxBatch, j \in JobCounts :
          FindMatches(List(q), 20, MaxK, a, b, j, 1)
    \/ \E w \in 1..MaxWorkers : WorkerTake(w)
    \/ \E w \in 1..MaxWorkers : WorkerFinish(w)
    \/ Collect

SpecBatch == Init /\ [][NextBatch]_vars

----------------------------------------------------------------------------
(* An orchestrator that was never given an index *)

ShortQueryLists == SeqsUpTo(QueryNames, 1, MaxBatch)

NextNoIndex ==
    \/ Construct
    \/ \E n \in QueryNames : GetEmbeddingCall(n)
    \/ \E q \in QueryNames, k \in {0, MaxK}, a \in BOOLEAN, b \in 1..MaxBatch,
          j \in JobCounts : FindMatches(Str(q), 20, k, a, b, j, 1)
    \/ \E q \in ShortQueryLists, k \in {0, MaxK}, a \in BOOLEAN, b \in 1..MaxBatch,
          j \in JobCounts : FindMatches(List(q), 20, k, a, b, j, 1)
    \/ \E l \in MatchExpandLists, d \in {NoDir, Dir} : ExpandIndex(l, d)

SpecNoIndex == Init /\ [][NextNoIndex]_vars

----------------------------------------------------------------------------
(* The embedding cache: get_embedding, compare_companies and find_matches on
   one name, under every configuration of the cache *)

CacheNames == {<<"acme", "corp">>, <<"acme", "inc">>, <<"apex">>, <<"initech">>}
CacheBuildLists == {<<<<"acme", "corp">>, <<"apex">>>>}

NextCache ==
    \/ \E u \in BOOLEAN, s \in 0..MaxCache : ConstructWith(u, s)
    \/ \E n \in CacheNames : GetEmbeddingCall(n)
    \/ \E a, b \in CacheNames : CompareCompanies(a, b)
    \/ \E l \in CacheBuildLists : BuildIndex(l, 1, NoDir)
    \/ \E q \in CacheNames, a \in BOOLEAN : FindMatches(Str(q), 0, 1, a, 1, 1, 1)

SpecCache == Init /\ [][NextCache]_vars

----------------------------------------------------------------------------
(* A producer that returns the zero vector for one of the texts *)

DegenerateNames == {<<"acme", "corp">>, <<"void">>}
DegenerateBuildLists == SeqsUpTo(DegenerateNames, 1, MaxBuild)
DegenerateExpandLists == SeqsUpTo(DegenerateNames, 1, MaxExpand)

NextDegenerate ==
    \/ \E l \in DegenerateBuildLists, c \in 1..MaxClusters : BuildIndex(l, c, NoDir)
    \/ \E l \in DegenerateExpandLists : ExpandIndex(l, NoDir)
    \/ \E q \in DegenerateNames, a \in BOOLEAN : FindMatches(Str(q), 0, MaxK, a, 1, 1, 1)

SpecDegenerate == Init /\ [][NextDegenerate]_vars

----------------------------------------------------------------------------
(* expand_index on one thread while the pool works on a find_matches *)

\* build_index called while no add_items is under way
BuildIndexAlone(company_list, n_clusters) ==
    /\ adding = None
    /\ BuildIndex(company_list, n_clusters, NoDir)

InterleavedQueryLists == SeqsUpTo(QueryNames, 1, MaxWorkers)

NextInterleaved ==
    \/ \E l \in BatchBuildLists : BuildIndexAlone(l, MaxClusters)
    \/ \E q \in InterleavedQueryLists, a \in BOOLEAN :
          FindMatches(List(q), 20, MaxK, a, 1, MaxWorkers, 1)
    \/ \E w \in 1..MaxWorkers : WorkerTake(w)
    \/ \E w \in 1..MaxWorkers : WorkerFinish(w)
    \/ Collect
    \/ \E l \in BatchExpandLists : ExpandStart(l)
    \/ AddItemsStack
    \/ AddItemsExtend
    \/ AddItemsPredict

SpecInterleaved == Init /\ [][NextInterleaved]_vars

----------------------------------------------------------------------------
(* Properties *)

IsFind == ret.op = "find_matches"
IsSearch == ret.op = "store.search"

\* scores never rise along a result list
Descending(pairs) == \A i, j \in DOMAIN pairs : i < j => pairs[i][2] >= pairs[j][2]

\* C1: on an orchestrator that was never given an index, every find_matches
\* call (one name or a list, whatever the other arguments) and every
\* expand_index call ends with the no-index error, sends nothing to the
\* embedding producer, and leaves the cache and the missing index as they were.
C1_NoIndexRejected ==
    [][(vector_store = None /\ ret'.op \notin {"__init__", "get_embedding"})
        => /\ ret'.op \in {"find_matches", "expand_index"}
           /\ ret'.out = Err(NoIndexError)
           /\ ret'.encoded = <<>>
           /\ embedding_cache' = embedding_cache
           /\ vector_store' = None
           /\ par' = None
           /\ disk' = disk]_vars

\* a list was rejected on the worker-pool path while the cache held a vector
C1_Witness ==
    /\ IsFind
    /\ ~ret.call.target.is_str
    /\ ret.call.n_jobs # 1
    /\ ret.out = Err(NoIndexError)
    /\ vector_store = None
    /\ embedding_cache # <<>>

\* C2: a find_matches call on a list of N names that ran on the worker pool
\* (n_jobs other than 1) returns N result lists, the i-th being a result of the
\* search for the i-th name, in whatever order the workers took and finished
\* the batches.
C2_ParallelOrder ==
    (IsFind /\ ~ret.call.target.is_str /\ ret.call.n_jobs # 1 /\ vector_store # None)
        => /\ ret.out.ok
           /\ Len(ret.out.val) = Len(ret.call.target.v)
           /\ \A i \in DOMAIN ret.call.target.v :
                 Ok(ret.out.val[i]) \in
                     FindMatchesSingle(vector_store, GetEmbeddings(ret.call.target.v)[i],
                                       ret.call.threshold, ret.call.k,
                                       ret.call.use_approx, ret.call.n_probe_clusters)

\* three batches, finished out of order, whose names have different results
C2_Witness ==
    /\ IsFind
    /\ ~ret.call.target.is_str
    /\ ret.call.n_jobs # 1
    /\ ret.out.ok
    /\ Len(ret.completed) = 3
    /\ ret.completed[1] # 1
    /\ ret.out.val[1] # ret.out.val[2]

\* C3: a find_matches call on one name returns at most k pairs, each with a
\* score of at least the threshold, in non-increasing order of score, in exact
\* and in approximate mode and for every k >= 0.
C3_SingleResultShape ==
    (IsFind /\ ret.call.target.is_str /\ ret.out.ok)
        => /\ Len(ret.out.val) <= ret.call.k
           /\ \A i \in DOMAIN ret.out.val : ret.out.val[i][2] >= ret.call.threshold
           /\ Descending(ret.out.val)

\* an approximate search over a clustered catalog cut a longer list down to k
C3_Witness ==
    /\ IsFind
    /\ ret.call.target.is_str
    /\ ret.out.ok
    /\ ret.call.use_approx
    /\ vector_store.kmeans # None
    /\ Len(vector_store.items) = 3
    /\ ret.call.threshold > 0
    /\ ret.call.k = 1
    /\ Len(ret.out.val) = 1

\* C4: exact-mode search over a catalog of N rows returns min(k, N) pairs in
\* non-increasing order of score, each the label and score of a catalog row, and
\* no row left out scores higher than a returned one; for every k >= 0.
C4_ExactTopK ==
    (IsSearch /\ ~ret.use_approx)
        => LET sims == StoreCosineSimilarity(Normalize(ret.query_embedding),
                                            vector_store.embeddings)
               val == ret.out.val
               n == Len(vector_store.items)
           IN  /\ ret.out.ok
               /\ Len(val) = Min(ret.k, n)
               /\ Descending(val)
               /\ \A j \in DOMAIN val :
                     \E i \in 1..n : vector_store.items[i] = val[j][1] /\ sims[i] = val[j][2]
               /\ val # <<>> =>
                     Cardinality({i \in 1..n : sims[i] > val[Len(val)][2]})
                         = Cardinality({j \in DOMAIN val : val[j][2] > val[Len(val)][2]})

\* C5: on a catalog with a partition model of C clusters, approximate search
\* with n_probe_clusters >= C and k >= 1 returns the very list exact search
\* returns for the same query and k.
C5_ApproxEqualsExact ==
    (/\ IsSearch
     /\ ret.use_approx
     /\ vector_store.kmeans # None
     /\ ret.k >= 1
     /\ ret.n_probe_clusters >= Len(vector_store.kmeans.cluster_centers))
        => \A exact \in Search(vector_store, ret.query_embedding, ret.k, FALSE,
                               ret.n_probe_clusters) : ret.out = exact

\* C6: on an index without a partition model, find_matches in approximate mode
\* returns the very list find_matches returns in exact mode.
C6_FallbackEqualsExact ==
    (/\ IsFind
     /\ ret.call.target.is_str
     /\ ret.call.use_approx
     /\ vector_store # None
     /\ vector_store.kmeans = None)
        => \A exact \in FindMatchesSingle(
                           vector_store,
                           EncodeOne(PreprocessCompanyName(ret.call.target.v)),
                           ret.call.threshold, ret.call.k, FALSE,
                           ret.call.n_probe_clusters) : ret.out = exact

\* C7: an index loaded from the directory is the index as it was when it was
\* last saved there: the same labels in the same order, the same embeddings,
\* the same cluster id for every row and the same centres; so every search of
\* one gives what the same search of the other gives.
C7_RoundTrip ==
    (ret.op = "load_index" /\ ret.out.ok)
        => /\ saved # None
           /\ vector_store.items = saved.items
           /\ vector_store.embeddings = saved.embeddings
           /\ vector_store.clusters = saved.clusters
           /\ vector_store.kmeans = saved.kmeans
           /\ \A q \in QueryNames, a \in BOOLEAN :
                 FindMatchesSingle(vector_store, EncodeOne(PreprocessCompanyName(q)),
                                   0, MaxK, a, MaxProbe)
                     = FindMatchesSingle(saved, EncodeOne(PreprocessCompanyName(q)),
                                         0, MaxK, a, MaxProbe)

\* a fresh orchestrator loaded a catalog that was built with two clusters,
\* grown and saved again
C7_Witness ==
    /\ ret.op = "load_index"
    /\ ret.out.ok
    /\ Len(vector_store.items) = 3
    /\ Len(vector_store.kmeans.cluster_centers) = 2
    /\ vector_store.clusters[1] # vector_store.clusters[2]
    /\ vector_store.items[1] # vector_store.items[2]

\* C8: after build_index(L0) and any expand_index(L1), ..., expand_index(Ln),
\* the labels of the catalog are L0, L1, ..., Ln one after the other, with one
\* embedding row each; labels that repeat are kept.
C8_LabelsAppended ==
    (given # None /\ vector_store # None)
        => /\ vector_store.items = given
           /\ Len(vector_store.embeddings) = Len(given)

\* a catalog built from one name and grown twice holds the same label twice
C8_Witness ==
    /\ ret.op = "expand_index"
    /\ given # None
    /\ Len(given) = 3
    /\ vector_store.kmeans = None
    /\ given[1] = given[3]
    /\ given[1] # given[2]

\* C9: VectorStore.load_index on a directory that lacks either artifact fails
\* with FileNotFoundError and leaves the store as it was.
C9_LoadMissingKeepsStore ==
    [][(ret'.op = "store.load_index" /\ (disk.h5 = NoFile \/ disk.model = NoFile))
        => /\ ret'.out = Err(FileNotFoundError)
           /\ vector_store' = vector_store]_vars

\* the embeddings file was there, the model file was not, and a clustered
\* store refused to load
C9_Witness ==
    /\ ret.op = "store.load_index"
    /\ ret.out = Err(FileNotFoundError)
    /\ disk.h5 # NoFile
    /\ disk.model = NoFile
    /\ vector_store.kmeans # None

\* a call that saves: build_index and expand_index with a directory (they pass
\* no overwrite flag), and save_index
SavesWithoutFlag(r) == r.op \in {"build_index", "expand_index"} /\ r.save_dir = Dir

\* C10 as claimed: a save into a directory that holds either artifact leaves both
\* as they are unless the caller set the overwrite flag.
C10_NoFlagNeverReplaces ==
    [][((SavesWithoutFlag(ret') \/ (ret'.op = "store.save_index" /\ ~ret'.overwrite))
         /\ (disk.h5 # NoFile \/ disk.model # NoFile))
        => (disk'.h5 = disk.h5 /\ disk'.model = disk.model)]_vars

\* C10, amended: save_index with overwrite=False, on a store that has a
\* partition model and into a directory that holds either artifact, fails with
\* FileExistsError and leaves both artifacts as they are; with overwrite=True,
\* which is the default and what build_index and expand_index save with, the
\* save succeeds and both artifacts hold the store being saved.
C10_OverwriteFalseRefuses ==
    [][/\ (/\ ret'.op = "store.save_index"
           /\ ~ret'.overwrite
           /\ vector_store.kmeans # None
           /\ (disk.h5 # NoFile \/ disk.model # NoFile))
          => /\ ret'.out = Err(FileExistsError)
             /\ disk'.h5 = disk.h5
             /\ disk'.model = disk.model
       /\ (/\ \/ SavesWithoutFlag(ret')
              \/ (ret'.op = "store.save_index" /\ ret'.overwrite)
           /\ vector_store' # None
           /\ vector_store'.kmeans # None)
          => /\ ret'.out.ok
             /\ disk'.h5 = [embeddings |-> vector_store'.embeddings,
                            items |-> EncodeItems(vector_store'.items)]
             /\ disk'.model = [kmeans |-> vector_store'.kmeans,
                               clusters |-> vector_store'.clusters]]_vars

\* only the model file was there, and a save with overwrite=False was refused
C10_Witness ==
    /\ ret.op = "store.save_index"
    /\ ~ret.overwrite
    /\ ret.out = Err(FileExistsError)
    /\ disk.h5 = NoFile
    /\ disk.model # NoFile

\* C11: save_index on a store that has no partition model fails with the
\* index-not-built error and leaves the directory as it was: no artifact is
\* written or changed and no directory is made.
C11_SaveWithoutModel ==
    [][(ret'.op = "store.save_index" /\ vector_store.kmeans = None)
        => /\ ret'.out = Err(IndexNotBuiltError)
           /\ disk' = disk
           /\ vector_store' = vector_store]_vars

\* a store built from one name was refused while no directory was there
C11_Witness ==
    /\ ret.op = "store.save_index"
    /\ ret.out = Err(IndexNotBuiltError)
    /\ vector_store.kmeans = None
    /\ ~disk.exists

\* the cache slots that hold key
SlotsOf(key) == {i \in DOMAIN embedding_cache : embedding_cache[i].key = key}

\* C12: with the cache enabled (and room for one entry at least), the second
\* of two consecutive get_embedding calls whose names preprocess to the same
\* key does not call the embedding producer, so the two calls make one
\* producer call between them (the first one's; none if the key was cached
\* before it); it returns the vector the first call returned, and the key
\* occupies one slot of the cache.
C12_SecondCallHits ==
    [][(/\ ret.op = "get_embedding"
        /\ ret'.op = "get_embedding"
        /\ config.use_cache
        /\ config.cache_size >= 1
        /\ PreprocessCompanyName(ret.company_name)
              = PreprocessCompanyName(ret'.company_name))
        => /\ ret.out.ok
           /\ ret'.out = ret.out
           /\ ret'.encoded = <<>>
           /\ Len(ret.encoded) + Len(ret'.encoded) <= 1
           /\ embedding_cache' = embedding_cache
           /\ Cardinality(SlotsOf(PreprocessCompanyName(ret.company_name))) = 1]_vars

\* "Acme Corp" was embedded by the producer and cached, and "Acme Inc", which
\* has the same key, was then answered from the cache
C12_Witness ==
    /\ ret.op = "get_embedding"
    /\ ret.company_name = <<"acme", "inc">>
    /\ ret.encoded = <<>>
    /\ ret.out.ok
    /\ config.use_cache
    /\ Len(embedding_cache) = 2
    /\ \E i \in DOMAIN embedding_cache : embedding_cache[i].key = <<"acme">>

\* the keys the cache holds
CachedKeys(cache) == {cache[i].key : i \in DOMAIN cache}

\* C13: whatever cache_size >= 0 was configured, the cache never holds more
\* than cache_size entries after a call, and a get_embedding call that misses
\* while the cache is at capacity takes exactly one of the entries out and puts
\* the new one in.
C13_CacheBounded ==
    [][/\ Len(embedding_cache') <= config'.cache_size
       /\ (/\ ret'.op = "get_embedding"
           /\ config.use_cache
           /\ PreprocessCompanyName(ret'.company_name) \notin CachedKeys(embedding_cache)
           /\ Len(embedding_cache) >= config.cache_size)
          => /\ PreprocessCompanyName(ret'.company_name) \in CachedKeys(embedding_cache')
             /\ Cardinality(CachedKeys(embedding_cache) \ CachedKeys(embedding_cache')) = 1]_vars

\* C14: with use_cache=False the cache is empty in every state, and every
\* get_embedding call sends its preprocessed name to the embedding producer
\* exactly once and returns what the producer gave, also when the same name
\* is asked for again.
C14_NoCachePassThrough ==
    ~config.use_cache
        => /\ embedding_cache = <<>>
           /\ ret.op = "get_embedding"
                => /\ ret.encoded = <<<<PreprocessCompanyName(ret.company_name)>>>>
                   /\ ret.out = Ok(EncodeOne(PreprocessCompanyName(ret.company_name)))

\* a get_embedding call on an orchestrator whose cache is switched off
C14_Witness ==
    /\ ~config.use_cache
    /\ config.cache_size = 0
    /\ ret.op = "get_embedding"
    /\ ret.out.ok
    /\ Len(ret.encoded) = 1

\* C15: after every build_index, expand_index and load_index call on the
\* orchestrator, returned or raised, the index holds as many labels as
\* embedding rows.
C15_LabelsMatchRows ==
    (ret.op \in {"build_index", "expand_index", "load_index"} /\ vector_store # None)
        => Len(vector_store.items) = Len(vector_store.embeddings)

\* expand_index raised from the save of a catalog without a partition model,
\* after the catalog had grown
C15_Witness ==
    /\ ret.op = "expand_index"
    /\ ret.out = Err(IndexNotBuiltError)
    /\ Len(vector_store.items) = 2
    /\ Len(vector_store.embeddings) = 2

\* C16: the partition model of an index is either absent altogether (no
\* centroid model, no cluster ids) or there altogether: a centroid model of C
\* centres and one cluster id in [0, C) for every row of the catalog.
C16_PartitionAllOrNothing ==
    vector_store # None
        => \/ /\ vector_store.kmeans = None
              /\ vector_store.clusters = None
           \/ /\ vector_store.kmeans # None
              /\ Len(vector_store.clusters) = Len(vector_store.items)
              /\ \A i \in DOMAIN vector_store.clusters :
                    vector_store.clusters[i] \in
                        0..(Len(vector_store.kmeans.cluster_centers) - 1)

\* the pairs of a result can be traced to distinct catalog rows in such a way
\* that, of two with the same score, the one listed first is the earlier row
TiesInInsertionOrder(val, items) ==
    \E f \in [DOMAIN val -> DOMAIN items] :
        /\ \A i, j \in DOMAIN val : i # j => f[i] # f[j]
        /\ \A i \in DOMAIN val : items[f[i]] = val[i][1]
        /\ \A i, j \in DOMAIN val : (i < j /\ val[i][2] = val[j][2]) => f[i] < f[j]

\* C17: in the result of a search (exact or approximate) and of find_matches
\* on one name, two catalog entries with the same score come in the order they
\* were inserted in the catalog.
C17_TiesByInsertion ==
    /\ (IsSearch /\ ret.out.ok)
          => TiesInInsertionOrder(ret.out.val, vector_store.items)
    /\ (IsFind /\ ret.call.target.is_str /\ ret.out.ok)
          => TiesInInsertionOrder(ret.out.val, vector_store.items)

\* the catalog rows of the clusters an approximate search may probe: one
\* sequence of rows for every way the n_probe_clusters nearest centres can be
\* picked
ProbedRows(store, query_embedding, n_probe_clusters) ==
    LET distances == Transform(store.kmeans, Normalize(query_embedding))
    IN  {Concat([j \in DOMAIN closest |-> Where(store.clusters, closest[j] - 1, 1)]) :
            closest \in {FirstK(p, n_probe_clusters) : p \in Argsorts(distances)}}

\* C18: on a catalog with a partition model, an approximate search with k >= 1
\* whose probed clusters hold no catalog row (n_probe_clusters >= 0) returns
\* what exact search returns for the same query and k: a list, not empty, and
\* no error.
C18_EmptyProbeFallsBack ==
    (/\ IsSearch
     /\ ret.use_approx
     /\ vector_store.kmeans # None
     /\ ret.k >= 1
     /\ ProbedRows(vector_store, ret.query_embedding, ret.n_probe_clusters) = {<<>>})
        => /\ ret.out.ok
           /\ ret.out.val # <<>>
           /\ ret.out \in Search(vector_store, ret.query_embedding, ret.k, FALSE,
                                 ret.n_probe_clusters)

\* C19: build_index on a catalog of N >= 2 names does not raise; asked for
\* n_clusters >= N it makes max(1, min(N - 1, N // 2)) clusters, and asked for
\* 1 <= n_clusters < N it makes n_clusters.
C19_ClusterCountClamped ==
    (ret.op = "build_index" /\ Len(ret.company_list) >= 2 /\ ret.n_clusters >= 1)
        => LET n == Len(ret.company_list)
           IN  /\ ret.out.ok
               /\ vector_store.kmeans # None
               /\ Len(vector_store.kmeans.cluster_centers)
                     = IF ret.n_clusters >= n
                       THEN Max(1, Min(n - 1, n \div 2))
                       ELSE ret.n_clusters

\* C20: expand_index on an index that has a partition model leaves the
\* centres (and so their number) as they are, and the embedding, label and
\* cluster id of every row that was there; it appends one row for each new
\* name, with the id of a centre no other centre is nearer to.
C20_AddKeepsPartition ==
    [][(/\ ret'.op = "expand_index"
        /\ vector_store # None
        /\ vector_store.kmeans # None)
        => LET old == Len(vector_store.items)
               new == Len(vector_store'.items)
               centres == vector_store.kmeans.cluster_centers
           IN  /\ vector_store'.kmeans = vector_store.kmeans
               /\ new = old + Len(ret'.new_company_list)
               /\ Len(vector_store'.embeddings) = new
               /\ Len(vector_store'.clusters) = new
               /\ SubSeq(vector_store'.items, 1, old) = vector_store.items
               /\ SubSeq(vector_store'.embeddings, 1, old) = vector_store.embeddings
               /\ SubSeq(vector_store'.clusters, 1, old) = vector_store.clusters
               /\ SubSeq(vector_store'.items, old + 1, new) = ret'.new_company_list
               /\ \A i \in (old + 1)..new :
                     /\ vector_store'.clusters[i] \in 0..(Len(centres) - 1)
                     /\ \A c \in DOMAIN centres :
                           DistSq(Scaled(vector_store'.embeddings[i], CentroidScale),
                                  centres[vector_store'.clusters[i] + 1])
                              <= DistSq(Scaled(vector_store'.embeddings[i], CentroidScale),
                                        centres[c])]_vars

\* a catalog of two clusters grew by a row that went to the second cluster
C20_Witness ==
    /\ ret.op = "expand_index"
    /\ ret.out.ok
    /\ vector_store.kmeans # None
    /\ Len(vector_store.kmeans.cluster_centers) = 2
    /\ Len(vector_store.items) = 3
    /\ vector_store.clusters[3] = 1

Without(s, set) == SelectSeq(s, LAMBDA e : e \notin set)

\* C22: with the cache enabled, get_embeddings (here as build_index and
\* expand_index call it) sends to the embedding producer, in one call, only
\* the preprocessed names the cache does not hold, and puts the vectors it
\* gets into the cache (all of them, when the cache has the room).
C22_BatchUsesCache ==
    [][(ret'.op \in {"build_index", "expand_index"} /\ config.use_cache /\ ret'.out.ok)
        => LET names == IF ret'.op = "build_index" THEN ret'.company_list
                        ELSE ret'.new_company_list
               missing == Without(Keys(names), CachedKeys(embedding_cache))
           IN  /\ ret'.encoded = IF missing = <<>> THEN <<>> ELSE <<missing>>
               /\ config.cache_size >= Len(embedding_cache) + Len(missing)
                     => Range(Keys(names)) \subseteq CachedKeys(embedding_cache')]_vars

\* C23: a find_matches call on a list of N names with batch_size b, in turn or
\* on the worker pool, calls the embedding producer ceil(N / b) times, each
\* time with at most b names; the slices sent are the consecutive slices of
\* the list, each sent once (in list order when the call runs in turn), and
\* every name gets one result list.
C23_BatchesPartition ==
    (IsFind /\ ~ret.call.target.is_str /\ vector_store # None)
        => LET q == Keys(ret.call.target.v)
               b == ret.call.batch_size
               n == Len(q)
               encoded == ret.encoded
           IN  /\ Len(encoded) * b >= n
               /\ (Len(encoded) - 1) * b < n
               /\ \A i \in DOMAIN encoded : Len(encoded[i]) \in 1..b
               /\ \E p \in Perms(Len(encoded)) :
                     /\ Concat([i \in DOMAIN encoded |-> encoded[p[i]]]) = q
                     /\ ret.call.n_jobs = 1 => p = [i \in DOMAIN encoded |-> i]
               /\ ret.out.ok
               /\ Len(ret.out.val) = n

\* three names in batches of two, on the pool and in turn
C23_Witness ==
    /\ IsFind
    /\ ~ret.call.target.is_str
    /\ vector_store # None
    /\ Len(ret.call.target.v) = 3
    /\ ret.call.batch_size = 2
    /\ Len(ret.encoded) = 2
    /\ ret.call.n_jobs # 1
    /\ ret.completed = <<2, 1>>

\* the producer returned a row of zeros in the last call
GotZeroVector ==
    /\ ret.op \in {"build_index", "expand_index", "find_matches"}
    /\ \E i \in DOMAIN ret.encoded :
          \E j \in DOMAIN ret.encoded[i] : IsZero(EncodeOne(ret.encoded[i][j]))

\* C24: a call in which the producer returns a row of zeros ends in a
\* DegenerateEmbeddingError; the catalog never holds a row of zeros or of
\* NaN, and find_matches never returns a NaN score.
C24_ZeroVectorReported ==
    /\ GotZeroVector => (~ret.out.ok /\ ret.out.err.type = "DegenerateEmbeddingError")
    /\ vector_store # None
          => \A i \in DOMAIN vector_store.embeddings :
                ~IsNaN(vector_store.embeddings[i]) /\ ~IsZero(vector_store.embeddings[i])
    /\ (IsFind /\ ret.out.ok) => \A i \in DOMAIN ret.out.val : ret.out.val[i][2] # NaN

\* C25: a load_index call of the orchestrator that fails (an artifact is
\* missing) leaves the orchestrator's index as it was: none if there was none,
\* the same store if there was one.
C25_FailedLoadKeepsIndex ==
    [][(ret'.op = "load_index" /\ ~ret'.out.ok) => vector_store' = vector_store]_vars

\* C26: a build_index call with a save_dir that returns without error leaves
\* both artifacts in the directory, holding the catalog just built, whatever
\* the size of the catalog.
C26_BuildWithDirSaves ==
    (ret.op = "build_index" /\ ret.save_dir = Dir /\ ret.out.ok)
        => /\ disk.h5 # NoFile
           /\ disk.model # NoFile
           /\ StoreLoadIndex(vector_store, disk).out.ok
           /\ StoreLoadIndex(vector_store, disk).store = vector_store

\* C27: an expand_index call on an index that ends in an error leaves the
\* catalog as it was: no rows, labels or cluster ids have been appended.
C27_FailedExpandKeepsCatalog ==
    [][(ret'.op = "expand_index" /\ ~ret'.out.ok /\ vector_store # None)
          => vector_store' = vector_store]_vars

\* the list object the caller passed to build_index.  VectorStore.__init__
\* keeps that object itself as its label list (self.items = items, no copy),
\* and the store holds it until a load puts a list of its own in its place:
\* until then (given # None) the caller's list is the store's label list.
CallerList == IF given # None /\ vector_store # None THEN vector_store.items ELSE None

\* C28: expand_index on an index made by build_index(L) leaves the caller's
\* list L with the elements it had.
C28_CallerListUntouched ==
    [][(ret'.op = "expand_index" /\ given # None /\ vector_store # None)
          => CallerList' = CallerList]_vars

C30_WorkersSeeAlignedCatalog ==
    [][(par # None /\ par' # None /\ par'.completed # par.completed)
          => /\ Len(vector_store.items) = Len(vector_store.embeddings)
             /\ vector_store.kmeans # None
                   => Len(vector_store.clusters) = Len(vector_store.items)]_vars

====
